---- MODULE Spec2Model ----
(***************************************************************************)
(* The lead enrichment pipeline of src/pipeline/enrichment.py together     *)
(* with the four collaborators it calls: the company directory             *)
(* (apollo_service.py), the insight extractor (scraper_service.py), the    *)
(* contact directory (hunter_service.py) and the message composer          *)
(* (ai_service.py).  External services are modelled by the responses they  *)
(* can give; every function of the repository is an operator computed the  *)
(* way its code computes it, and process_leads is a state machine with one *)
(* action per stage of the loop.                                           *)
(***************************************************************************)
EXTENDS Integers, Sequences, FiniteSets, TLC

\* ------------------------------------------------------------------ bounds

\* Largest number of organizations one directory response holds.
MaxCompanies == 2

\* Largest value of the --max-leads argument that is explored.
MaxLeadsArg == 2

\* ------------------------------------------------------- Python primitives

\* Python's None where a string is expected.
None == "<None>"

\* The website check with a mistake a maintainer could make: "is not None"
\* for truthiness.
TruthyNotNone(v) == v # None

\* bool(v) of an Optional[str]: None and "" are falsy.
Truthy(v) == v # None /\ v # ""

Min(a, b) == IF a <= b THEN a ELSE b

Max(a, b) == IF a >= b THEN a ELSE b

\* The truncation with a mistake a maintainer could make: the slice is
\* forgotten and the whole list is processed.
PySlicePrefixWhole(s, n) == s

\* s[:n] of a list: a negative n counts from the end.
PySlicePrefix(s, n) ==
    LET stop == IF n >= 0 THEN Min(n, Len(s)) ELSE Max(Len(s) + n, 0)
    IN  SubSeq(s, 1, stop)

\* All sequences over S of length at most n.
SeqsUpTo(S, n) == UNION {[1..k -> S] : k \in 0..n}

\* Text is a sequence of tokens; a token is a literal piece of text.
NL == "\n"

RECURSIVE Concat(_)
\* "".join(parts) for a sequence of texts.
Concat(parts) ==
    IF parts = <<>> THEN <<>> ELSE Head(parts) \o Concat(Tail(parts))

\* A function's outcome: a returned value or a raised exception.
Returned(v) == [raised |-> FALSE, exc |-> "none", value |-> v]

Raised(e, v) == [raised |-> TRUE, exc |-> e, value |-> v]

\* ------------------------------------------------- schemas (schemas.py)

Company(name, website, employee_count, industry, location) ==
    [name |-> name, website |-> website, employee_count |-> employee_count,
     industry |-> industry, location |-> location]

Lead(company, insights, personalized_message, contacts) ==
    [company |-> company, insights |-> insights,
     personalized_message |-> personalized_message, contacts |-> contacts]

\* ------------------------------------ company directory (apollo_service.py)

\* Organizations the search API can list.  website_url may be a URL, an
\* empty string or null.
Organizations ==
    { [name |-> "Acme", website_url |-> "acme.com", industry |-> "hardware"],
      [name |-> "Beta", website_url |-> "https://beta.io", industry |-> "retail"],
      [name |-> "Gamma", website_url |-> "", industry |-> "hardware"],
      [name |-> "Delta", website_url |-> None, industry |-> "hardware"] }

\* What the search endpoint can answer.
ApolloResponses ==
    { [kind |-> k, organizations |-> <<>>] :
          k \in {"request_error", "no_organizations_key"} }
    \cup { [kind |-> "ok", organizations |-> s] :
               s \in SeqsUpTo(Organizations, MaxCompanies) }

\* The size ranges a run can be given: one well formed, one not.
SizeRanges == {"201-500", "large"}

ValidSizeRange(size_range) == size_range = "201-500"

\* Company(...) built from one organization of the response.
CompanyOf(org) ==
    Company(org.name, org.website_url, 250, org.industry, "Pune, MH, India")

\* find_companies: the list of Company, or the error it raises.  The retry
\* predicate is handed the retry state, never the exception, so it is false
\* and the first failure is raised as it is.
FindCompanies(size_range, resp) ==
    IF ~ValidSizeRange(size_range) THEN Raised("ValueError", <<>>)
    ELSE IF resp.kind = "request_error" THEN Raised("ApolloApiError", <<>>)
    ELSE IF resp.kind = "no_organizations_key" THEN Raised("ApolloApiError", <<>>)
    ELSE Returned([k \in 1..Len(resp.organizations) |->
                       CompanyOf(resp.organizations[k])])

\* ------------------------------------ insight extractor (scraper_service.py)

HardwareFlags == {"workstations", "servers", "networking", "storage", "peripherals"}

\* HardwareNeeds(): every flag defaults to false.
HardwareNeeds == [f \in HardwareFlags |-> FALSE]

\* The fields CompanyInsights declares without a default.
RequiredInsightFields ==
    {"business_summary", "company_size_indicator", "key_insights",
     "personalization_hook"}

\* The ceiling Field(max_length=3) puts on key_insights.
MaxKeyInsights == 3

\* JSON objects the language model can answer with: the values it gives and
\* the keys it leaves out.
InsightsGood ==
    [fields |-> [business_summary |-> "Acme builds CAD software",
                 company_size_indicator |-> "medium",
                 key_insights |-> <<"hiring engineers", "opening new office">>,
                 hardware_opportunity |->
                     [f \in HardwareFlags |-> f \in {"workstations", "networking"}],
                 decision_maker_hint |-> "IT Manager",
                 personalization_hook |-> "their new design studio"],
     missing |-> {}]

InsightsTooMany ==
    [InsightsGood EXCEPT !.fields.key_insights =
         <<"hiring", "new office", "old servers", "remote staff">>]

InsightsNoHook == [InsightsGood EXCEPT !.missing = {"personalization_hook"}]

InsightsDefaults ==
    [InsightsGood EXCEPT !.missing = {"hardware_opportunity", "decision_maker_hint"}]

\* What the chat-completion request of _analyze_with_ai can produce.
InsightLLMResponses ==
    { [kind |-> k, data |-> InsightsGood] : k \in {"request_error", "not_json"} }
    \cup { [kind |-> "json", data |-> d] :
               d \in {InsightsGood, InsightsTooMany, InsightsNoHook, InsightsDefaults} }

\* What fetching the page can produce.
PageResponses == {"ok", "fetch_error", "http_error"}

\* The validation with a mistake a maintainer could make: the ceiling on
\* key_insights is not declared.
ValidInsightsNoCeiling(d) == d.missing \cap RequiredInsightFields = {}

\* CompanyInsights(**data): pydantic validation, defaults for absent optional keys.
ValidInsights(d) ==
    /\ d.missing \cap RequiredInsightFields = {}
    /\ Len(d.fields.key_insights) <= MaxKeyInsights

CompanyInsights(d) ==
    [business_summary |-> d.fields.business_summary,
     company_size_indicator |-> d.fields.company_size_indicator,
     key_insights |-> d.fields.key_insights,
     hardware_opportunity |->
         IF "hardware_opportunity" \in d.missing THEN HardwareNeeds
         ELSE d.fields.hardware_opportunity,
     decision_maker_hint |->
         IF "decision_maker_hint" \in d.missing THEN ""
         ELSE d.fields.decision_maker_hint,
     personalization_hook |-> d.fields.personalization_hook]

\* _get_fallback_insights: the fixed record.
FallbackInsights ==
    [business_summary |-> "Company details could not be analyzed from website",
     company_size_indicator |-> "unknown",
     key_insights |-> <<"Website analysis was unsuccessful",
                        "Manual research recommended",
                        "Basic contact information may be available">>,
     hardware_opportunity |-> HardwareNeeds,
     decision_maker_hint |-> "General Manager or IT contact",
     personalization_hook |-> "Professional services company"]

\* What the chat-completion request can also produce: a message without
\* content, and JSON text that is not an object. scrape_website answers both
\* with the fallback record, as it does a failed request.
OddLLMResponses ==
    { [kind |-> k, data |-> InsightsGood] : k \in {"null_content", "json_not_object"} }

\* _analyze_with_ai: invalid JSON and failed validation give the fallback;
\* any other exception is re-raised (and, the retry predicate being false,
\* reaches the caller): the request's own, the TypeError of json.loads(None)
\* and the TypeError of CompanyInsights(**data) for data that is no mapping.
AnalyzeWithAI(llm) ==
    IF llm.kind = "request_error" THEN Raised("APIError", FallbackInsights)
    ELSE IF llm.kind \in {"null_content", "json_not_object"}
    THEN Raised("TypeError", FallbackInsights)
    ELSE IF llm.kind = "not_json" THEN Returned(FallbackInsights)
    ELSE IF ~ValidInsights(llm.data) THEN Returned(FallbackInsights)
    ELSE Returned(CompanyInsights(llm.data))

\* scrape_website, with a mistake a maintainer could make: only the fetch
\* error is handled, so a failure of the analysis reaches the caller.
ScrapeWebsiteFetchOnly(page, llm) ==
    IF page # "ok" THEN Returned(FallbackInsights) ELSE AnalyzeWithAI(llm)

\* scrape_website: fetch, clean, analyse; a RequestException and every other
\* Exception both end in the fallback record.
ScrapeWebsite(page, llm) ==
    IF page # "ok" THEN Returned(FallbackInsights)
    ELSE LET r == AnalyzeWithAI(llm)
         IN  IF r.raised THEN Returned(FallbackInsights) ELSE r

\* insights.model_dump(): the model and its nested model as plain dicts.
ModelDumpInsights(ins) ==
    [business_summary |-> ins.business_summary,
     company_size_indicator |-> ins.company_size_indicator,
     key_insights |-> ins.key_insights,
     hardware_opportunity |->
         [f \in HardwareFlags |-> ins.hardware_opportunity[f]],
     decision_maker_hint |-> ins.decision_maker_hint,
     personalization_hook |-> ins.personalization_hook]

\* ------------------------------------ contact directory (hunter_service.py)

\* One entry of the "emails" array of a domain-search answer.
EmailEntry ==
    [value |-> "cto@acme.com", first_name |-> "Ada", last_name |-> None,
     position |-> "CTO", department |-> None, verification |-> "deliverable"]

\* What the domain-search endpoint can answer.
HunterResponses ==
    { [kind |-> k, emails |-> <<>>] :
          k \in {"http_401", "http_429", "http_500", "network_error",
                 "api_errors", "bad_payload"} }
    \cup { [kind |-> "ok", emails |-> e] : e \in {<<>>, <<EmailEntry>>} }

\* x or '' for an optional string of the answer.
OrEmpty(v) == IF Truthy(v) THEN v ELSE ""

\* ContactInfo(...) built from one entry.
ContactInfo(e) ==
    [email |-> e.value, first_name |-> OrEmpty(e.first_name),
     last_name |-> OrEmpty(e.last_name), position |-> OrEmpty(e.position),
     department |-> OrEmpty(e.department),
     verified |-> (e.verification = "deliverable")]

\* find_emails_by_domain: HTTP and network failures and an "errors" answer
\* become HunterError; an entry that cannot be parsed raises as it is.
FindEmailsByDomain(resp) ==
    IF resp.kind \in {"http_401", "http_429", "http_500", "network_error", "api_errors"}
    THEN Raised("HunterError", <<>>)
    ELSE IF resp.kind = "bad_payload" THEN Raised("AttributeError", <<>>)
    ELSE Returned([k \in 1..Len(resp.emails) |-> ContactInfo(resp.emails[k])])

\* get_all_contacts: every exception of the search ends in an empty list.
GetAllContacts(resp) ==
    LET r == FindEmailsByDomain(resp)
    IN  IF r.raised THEN Returned(<<>>) ELSE Returned(r.value)

\* contact.model_dump() of one ContactInfo.
ModelDumpContact(c) ==
    [email |-> c.email, first_name |-> c.first_name, last_name |-> c.last_name,
     position |-> c.position, department |-> c.department, verified |-> c.verified]

\* The contact stage with a mistake a maintainer could make: a failed search
\* is let through to the per-company handler instead of counting as zero
\* contacts.
FindContactsUncaught(resp) ==
    LET r == FindEmailsByDomain(resp)
    IN  IF r.raised THEN r
        ELSE Returned([k \in 1..Len(r.value) |-> ModelDumpContact(r.value[k])])

\* The contact stage of process_leads: contacts starts empty, is replaced by
\* the dumped contacts when the lookup returns, and stays empty when the
\* lookup raises HunterError or any other Exception.
FindContacts(resp) ==
    LET r == GetAllContacts(resp)
    IN  IF r.raised THEN Returned(<<>>)
        ELSE Returned([k \in 1..Len(r.value) |-> ModelDumpContact(r.value[k])])

\* ---------------------------------------- message composer (ai_service.py)

MessageFields ==
    {"subject_line", "greeting", "opening", "value_proposition",
     "specific_offer", "call_to_action", "closing"}

\* JSON objects the language model can answer with.
MessageGood ==
    [fields |-> [subject_line |-> <<"New workstations for Acme">>,
                 greeting |-> <<"Hi IT Manager,">>,
                 opening |-> <<"I saw your new design studio.">>,
                 value_proposition |-> <<"Faster CAD on current hardware.">>,
                 specific_offer |-> <<"Twenty workstations and a switch.">>,
                 call_to_action |-> <<"Shall we talk on Tuesday?">>,
                 closing |-> <<"Looking forward to it.">>],
     missing |-> {}]

MessageBlank == [fields |-> [f \in MessageFields |-> <<>>], missing |-> {}]

MessageNoClosing == [MessageGood EXCEPT !.missing = {"closing"}]

\* What the chat-completion request of generate_message can produce.
MessageLLMResponses ==
    { [kind |-> k, data |-> MessageGood] :
          k \in {"request_error", "null_content", "not_json"} }
    \cup { [kind |-> "json", data |-> d] :
               d \in {MessageGood, MessageBlank, MessageNoClosing} }

\* OutreachMessage(**data): every field is required, any string is accepted.
ValidMessage(d) == d.missing = {}

OutreachMessage(d) == [f \in MessageFields |-> d.fields[f]]

\* _get_fallback_message: the templated message.
FallbackMessage(company, insights) ==
    [subject_line |-> <<"Hardware Solutions for ", company.name>>,
     greeting |-> <<"Hello ",
                    IF Truthy(insights.decision_maker_hint)
                    THEN insights.decision_maker_hint ELSE "there", ",">>,
     opening |-> <<"I came across ", company.name,
                   " and was impressed by your work in ", company.industry, ".">>,
     value_proposition |-> <<"As a growing business, having reliable IT infrastructure is crucial for your continued success.">>,
     specific_offer |-> <<"We specialize in providing businesses like yours with quality computers, servers, and networking equipment at competitive prices.">>,
     call_to_action |-> <<"Would you be open to a brief 15-minute call to discuss your current IT needs?">>,
     closing |-> <<"I'd love to learn more about your business and see how we can support your technology requirements.">>]

\* The signature block format_email appends.
Signature ==
    <<"Best regards,", NL, "Jay Arora", NL, "Hardware Solutions Specialist", NL,
      "NewTech Computers", NL, "+1 (619) 200-0000 | jay@newtechcomputers.com">>

\* format_email with a mistake a maintainer could make: the fields are joined
\* without the fixed text around them.
FormatEmailFieldsOnly(m) ==
    Concat(<<m.subject_line, m.greeting, m.opening, m.value_proposition,
             m.specific_offer, m.call_to_action, m.closing>>)

\* format_email: the subject header, the seven fields separated by blank
\* lines, and the signature.
FormatEmail(m) ==
    Concat(<<<<"Subject:", " ">>, m.subject_line, <<NL, NL>>,
             m.greeting, <<NL, NL>>, m.opening, <<NL, NL>>,
             m.value_proposition, <<NL, NL>>, m.specific_offer, <<NL, NL>>,
             m.call_to_action, <<NL, NL>>, m.closing, <<NL, NL>>>>)
    \o Signature

\* The try body of generate_message: what it raises or returns, and whether
\* the statement "import json" (line 118, after the request) has run.
GenerateBody(llm) ==
    IF llm.kind = "request_error"
    THEN [exc |-> "APIError", json_bound |-> FALSE, data |-> llm.data]
    ELSE IF llm.kind = "null_content"
    THEN [exc |-> "TypeError", json_bound |-> TRUE, data |-> llm.data]
    ELSE IF llm.kind = "not_json"
    THEN [exc |-> "JSONDecodeError", json_bound |-> TRUE, data |-> llm.data]
    ELSE IF ~ValidMessage(llm.data)
    THEN [exc |-> "ValidationError", json_bound |-> TRUE, data |-> llm.data]
    ELSE [exc |-> "none", json_bound |-> TRUE, data |-> llm.data]

\* generate_message.  json is a local name of the function (it is imported
\* inside it), so matching "except json.JSONDecodeError" before the import
\* has run raises UnboundLocalError out of the function.
GenerateMessage(company, insights, llm) ==
    LET b == GenerateBody(llm)
    IN  IF b.exc = "none" THEN Returned(OutreachMessage(b.data))
        ELSE IF ~b.json_bound
        THEN Raised("UnboundLocalError", FallbackMessage(company, insights))
        ELSE Returned(FallbackMessage(company, insights))

\* ------------------------------------ process_leads (pipeline/enrichment.py)

VARIABLES
    size_range,            \* search_criteria.size_range
    max_leads,             \* the max_leads argument
    pc,                    \* where process_leads is
    companies,             \* the list find_companies returned
    companies_to_process,  \* companies[:max_leads]
    i,                     \* the loop counter of enumerate(..., 1)
    insights,              \* the local insights: <<>> while unbound, else <<record>>
    contacts,              \* the local contacts
    enriched_leads,        \* the list being built
    result,                \* the returned list: <<>> while running, else <<list>>
    error,                 \* the exception raised to the caller and its cause
    calls,                 \* history: the collaborator calls made, in order
    escaped,               \* history: exceptions that reached the per-company handler
    lookup_failed,         \* history: loop counters whose contact search failed
    lead_of,               \* history: the loop counter that produced each lead
    ref_contacts,          \* reference run: its local contacts
    ref_leads              \* reference run: its list

pipeline_vars ==
    <<size_range, max_leads, pc, companies, companies_to_process, i, insights,
      contacts, enriched_leads, result, error, calls, escaped, lookup_failed,
      lead_of, ref_contacts, ref_leads>>

\* main() and save_leads_to_file (main.py, pipeline/enrichment.py).
VARIABLES
    output_file,            \* args.output_file: <<>> for None, else <<path>>
    google_sheets_endpoint, \* config.google_sheets_endpoint
    m_pc,                   \* where main is
    leads,                  \* the list process_leads returned to main
    summarized,             \* display_leads_summary has printed the leads
    timestamp,              \* the local of save_leads_to_file
    response,               \* what the POST produced: <<>> or <<response>>
    google_sheets_success,  \* the local of save_leads_to_file
    filename,               \* the filename of save_leads_to_file, as output_file
    sheet,                  \* the rows the remote endpoint has appended
    files,                  \* the local file system: path -> what was dumped
    saved,                  \* what save_leads_to_file returned: <<>> or <<value>>
    main_error,             \* the exception main() raised to its caller
    trail                   \* history: what the save did, in order

main_vars ==
    <<output_file, google_sheets_endpoint, m_pc, leads, summarized, timestamp,
      response, google_sheets_success, filename, sheet, files, saved, main_error, trail>>

\* A function applied on its own to one input.
VARIABLES
    fn,                     \* the function applied last, "none" before
    arg,                    \* the argument
    ret                     \* what each applied function returned

fn_vars == <<fn, arg, ret>>

\* One call of a function wrapped in @retry (services/*.py).
VARIABLES
    leaf,                   \* the wrapped function that is called
    answers,                \* what the remote side would answer, per attempt
    attempt_number,         \* retry_state.attempt_number
    outcome,                \* retry_state.outcome: <<>> or <<the attempt's outcome>>
    r_pc,                   \* where the retrying loop is
    received                \* what the caller got: <<>> or <<outcome>>

retry_vars == <<leaf, answers, attempt_number, outcome, r_pc, received>>

\* The outbound requests of one run, seen from the network.
VARIABLES
    w_n,                    \* how many companies the run goes through
    w_stage,                \* the request the run is at
    w_company,              \* the company it is for, 0 for the directory
    in_flight,              \* the pending request: <<>> or <<request>>
    w_failed,               \* history: the requests that failed
    w_result                \* "running", "returned" or "raised"

wait_vars == <<w_n, w_stage, w_company, in_flight, w_failed, w_result>>

vars == <<pipeline_vars, main_vars, fn_vars, retry_vars, wait_vars>>

\* No run is observed from the network.
WaitIdle ==
    /\ w_n = 0
    /\ w_stage = "idle"
    /\ w_company = 0
    /\ in_flight = <<>>
    /\ w_failed = {}
    /\ w_result = "idle"

\* No wrapped function is being called on its own.
RetryIdle ==
    /\ leaf = "none"
    /\ answers = <<>>
    /\ attempt_number = 0
    /\ outcome = <<>>
    /\ r_pc = "idle"
    /\ received = <<>>

\* main() is not running.
MainIdle ==
    /\ output_file = <<>>
    /\ google_sheets_endpoint = None
    /\ m_pc = "idle"
    /\ leads = <<>>
    /\ summarized = FALSE
    /\ timestamp = ""
    /\ response = <<>>
    /\ google_sheets_success = FALSE
    /\ filename = <<>>
    /\ sheet = <<>>
    /\ files = {}
    /\ saved = <<>>
    /\ main_error = "none"
    /\ trail = <<>>

\* No function is applied on its own.
FnIdle ==
    /\ fn = "none"
    /\ arg = <<>>
    /\ ret = {}

\* What a run of process_leads leaves alone.
beside_pipeline == <<main_vars, fn_vars, retry_vars, wait_vars>>

\* The reference run is the same run with every failed contact search
\* answered by a successful search that finds nobody.
ZeroContacts == [kind |-> "ok", emails |-> <<>>]

\* One entry of the call history: the collaborator, the loop counter it was
\* called for (0 for the directory) and whether the call returned or raised.
Call(svc, idx, r) ==
    [svc |-> svc, idx |-> idx,
     outcome |-> IF r.raised THEN "raised" ELSE "returned"]

NoError == [type |-> "none", cause |-> "none"]

\* Line 124: the outer handler wraps whatever reaches it.
EnrichmentError(cause) == [type |-> "EnrichmentError", cause |-> cause]

\* The verdict with a mistake a maintainer could make: an empty result is
\* treated as a failed lookup.
LookupVerdictEmptyRaises(r) ==
    IF r.raised \/ r.value = <<>> THEN "raise" ELSE "process"

\* Lines 54-62: what process_leads does with the lookup's outcome.
LookupVerdict(r) ==
    IF r.raised THEN "raise"
    ELSE IF r.value = <<>> THEN "return_empty"
    ELSE "process"

\* The inner handler with a mistake a maintainer could make: only the
\* contact directory's own error is caught.
InnerExceptHunterOnly(exc) == exc = "HunterError"

\* Line 114: "except Exception" catches every exception a stage raises.
InnerExcept(exc) ==
    exc \in {"APIError", "TypeError", "JSONDecodeError", "ValidationError",
             "UnboundLocalError", "HunterError", "AttributeError"}

\* The handler with a mistake a maintainer could make: the failed company is
\* tried again.
AfterErrorRepeat(idx, n) == idx

\* The handler with a mistake a maintainer could make: break for continue.
AfterErrorBreak(idx, n) == n + 1

\* Line 116: continue, the loop goes on with the next company (n companies
\* are being processed, this one is number idx).
AfterError(idx, n) == idx + 1

\* Lines 114-116 and 123-124: an exception of a stage of company i.
HandleStageError(step, exc) ==
    IF InnerExcept(exc)
    THEN /\ escaped' = escaped \cup {[idx |-> i, step |-> step]}
         /\ i' = AfterError(i, Len(companies_to_process))
         /\ pc' = "loop"
         /\ error' = error
    ELSE /\ pc' = "raised"
         /\ error' = EnrichmentError(exc)
         /\ UNCHANGED <<escaped, i>>

Init ==
    /\ size_range \in SizeRanges
    /\ max_leads \in (0 - 1)..MaxLeadsArg
    /\ pc = "start"
    /\ companies = <<>>
    /\ companies_to_process = <<>>
    /\ i = 0
    /\ insights = <<>>
    /\ contacts = <<>>
    /\ enriched_leads = <<>>
    /\ result = <<>>
    /\ error = NoError
    /\ calls = <<>>
    /\ escaped = {}
    /\ lookup_failed = {}
    /\ lead_of = <<>>
    /\ ref_contacts = <<>>
    /\ ref_leads = <<>>
    /\ MainIdle
    /\ FnIdle
    /\ RetryIdle
    /\ WaitIdle

\* Lines 51-68 and 123-124: the directory lookup, the empty-result return, the
\* truncation, and the wrapping of a lookup failure into EnrichmentError.
FindCompaniesStep ==
    /\ pc = "start"
    /\ \E resp \in ApolloResponses :
          LET r == FindCompanies(size_range, resp)
              verdict == LookupVerdict(r)
          IN  /\ calls' = Append(calls, Call("directory", 0, r))
              /\ IF verdict = "raise"
                 THEN /\ pc' = "raised"
                      /\ error' = EnrichmentError(r.exc)
                      /\ UNCHANGED <<companies, companies_to_process, i, result>>
                 ELSE IF verdict = "return_empty"
                 THEN /\ pc' = "done"
                      /\ result' = << <<>> >>
                      /\ companies' = r.value
                      /\ UNCHANGED <<companies_to_process, i, error>>
                 ELSE /\ pc' = "loop"
                      /\ companies' = r.value
                      /\ companies_to_process' = PySlicePrefix(r.value, max_leads)
                      /\ i' = 1
                      /\ UNCHANGED <<result, error>>
    /\ UNCHANGED beside_pipeline
    /\ UNCHANGED <<size_range, max_leads, insights, contacts, enriched_leads,
                   escaped, lookup_failed, lead_of, ref_contacts, ref_leads>>

\* Lines 71-78: a company without a website is skipped.
SkipCompany ==
    /\ pc = "loop"
    /\ i <= Len(companies_to_process)
    /\ ~Truthy(companies_to_process[i].website)
    /\ i' = i + 1
    /\ UNCHANGED beside_pipeline
    /\ UNCHANGED <<size_range, max_leads, pc, companies, companies_to_process,
                   insights, contacts, enriched_leads, result, error, calls,
                   escaped, lookup_failed, lead_of, ref_contacts, ref_leads>>

\* Lines 80-82 (and the handlers of 114-116 and 123-124): the insight
\* extractor is called for a company with a website.
ScrapeStep ==
    /\ pc = "loop"
    /\ i <= Len(companies_to_process)
    /\ Truthy(companies_to_process[i].website)
    /\ \E page \in PageResponses, llm \in InsightLLMResponses :
          LET r == ScrapeWebsite(page, llm)
          IN  /\ calls' = Append(calls, Call("scraper", i, r))
              /\ IF r.raised
                 THEN /\ HandleStageError("scraper", r.exc)
                      /\ UNCHANGED insights
                 ELSE /\ insights' = <<r.value>>
                      /\ pc' = "contacts"
                      /\ UNCHANGED <<escaped, i, error>>
    /\ UNCHANGED beside_pipeline
    /\ UNCHANGED <<size_range, max_leads, companies, companies_to_process,
                   contacts, enriched_leads, result, lookup_failed,
                   lead_of, ref_contacts, ref_leads>>

\* Lines 84-97 (and the handlers of 114-116 and 123-124): the contact lookup.
ContactsStep ==
    /\ pc = "contacts"
    /\ \E resp \in HunterResponses :
          LET failed == FindEmailsByDomain(resp).raised
              r == FindContacts(resp)
              ref == FindContacts(IF failed THEN ZeroContacts ELSE resp)
          IN  /\ calls' = Append(calls, Call("hunter", i, r))
              /\ lookup_failed' = IF failed THEN lookup_failed \cup {i}
                                  ELSE lookup_failed
              /\ ref_contacts' = ref.value
              /\ IF r.raised
                 THEN /\ HandleStageError("hunter", r.exc)
                      /\ contacts' = <<>>
                 ELSE /\ contacts' = r.value
                      /\ pc' = "compose"
                      /\ UNCHANGED <<escaped, i, error>>
    /\ UNCHANGED beside_pipeline
    /\ UNCHANGED <<size_range, max_leads, companies, companies_to_process,
                   insights, enriched_leads, result, lead_of, ref_leads>>

\* The append with a mistake a maintainer could make: the lead is put at the
\* front of the list.
InsertLeadFirst(list, lead) == <<lead>> \o list

\* Line 108: enriched_leads.append(lead).
AppendLead(list, lead) == Append(list, lead)

\* Lines 99-116 (and 123-124): the message is composed, the lead is assembled
\* and appended; an exception out of these lines drops the company.
ComposeStep ==
    /\ pc = "compose"
    /\ \E llm \in MessageLLMResponses :
          LET company == companies_to_process[i]
              m == GenerateMessage(company, insights[1], llm)
          IN  /\ calls' = Append(calls, Call("composer", i, m))
              /\ IF m.raised
                 THEN /\ HandleStageError("composer", m.exc)
                      /\ UNCHANGED <<enriched_leads, lead_of, ref_leads>>
                 ELSE /\ enriched_leads' =
                             AppendLead(enriched_leads,
                                    Lead(company, ModelDumpInsights(insights[1]),
                                         FormatEmail(m.value), contacts))
                      /\ ref_leads' =
                             AppendLead(ref_leads,
                                    Lead(company, ModelDumpInsights(insights[1]),
                                         FormatEmail(m.value), ref_contacts))
                      /\ lead_of' = Append(lead_of, i)
                      /\ i' = i + 1
                      /\ pc' = "loop"
                      /\ UNCHANGED <<escaped, error>>
    /\ UNCHANGED beside_pipeline
    /\ UNCHANGED <<size_range, max_leads, companies, companies_to_process,
                   insights, contacts, result, lookup_failed, ref_contacts>>

\* Lines 118-121: the loop is over and the list is returned.
ReturnLeads ==
    /\ pc = "loop"
    /\ i > Len(companies_to_process)
    /\ pc' = "done"
    /\ result' = <<enriched_leads>>
    /\ UNCHANGED beside_pipeline
    /\ UNCHANGED <<size_range, max_leads, companies, companies_to_process, i,
                   insights, contacts, enriched_leads, error, calls, escaped,
                   lookup_failed, lead_of, ref_contacts, ref_leads>>

Next ==
    \/ FindCompaniesStep
    \/ SkipCompany
    \/ ScrapeStep
    \/ ContactsStep
    \/ ComposeStep
    \/ ReturnLeads

Spec == Init /\ [][Next]_vars

\* ------------------------- save_leads_to_file (pipeline/enrichment.py), main

\* A path is the sequence of its components: <<>> is the empty string,
\* <<"leads.json">> a bare file name, <<"out", "leads.json">> out/leads.json.
Paths == {<<>>, <<"leads.json">>, <<"out", "leads.json">>}

\* os.path.dirname: everything before the last component.
DirName(path) ==
    IF path = <<>> THEN <<>> ELSE SubSeq(path, 1, Len(path) - 1)

\* What strftime("%Y%m%d_%H%M%S") can give, already inside the default file
\* name leads_<timestamp>.json.
Timestamps == {"leads_20261102_093000.json", "leads_20261102_093001.json"}

\* Line 200: the default path.
DefaultFilename(ts) == <<"data", "output", ts>>

\* Lines 199-200: the path the snapshot goes to.
SnapshotPath(given, ts) ==
    IF given = <<>> \/ given[1] = <<>> THEN DefaultFilename(ts) ELSE given[1]

\* Line 229: the text returned when the remote append succeeded.
SheetsAndLocal == <<"Google Sheets + Local Backup">>

\* The values GOOGLE_SHEETS_ENDPOINT can have: unset, empty, a URL.
Endpoints == {None, "", "https://script.example/exec"}

\* What the POST to the endpoint can produce: an exception of requests, or a
\* status and a body; appended tells whether the endpoint appended the rows.
SheetResponses ==
    { [kind |-> "timeout", status |-> 0, body |-> "none", appended |-> a] :
          a \in BOOLEAN }
    \cup { [kind |-> "connection_error", status |-> 0, body |-> "none",
            appended |-> FALSE] }
    \cup { [kind |-> "http", status |-> 500, body |-> "not_json",
            appended |-> FALSE] }
    \cup { [kind |-> "http", status |-> 200, body |-> b, appended |-> FALSE] :
               b \in {"not_json", "json_array", "no_success_key",
                      "success_false"} }
    \cup { [kind |-> "http", status |-> 200, body |-> b, appended |-> TRUE] :
               b \in {"success_true", "success_1"} }

\* response.json() works and gives an object (a dict).
ParsesToObject(body) == body \notin {"not_json", "json_array"}

\* result.get('success', False), as the JSON literal it came from.
SuccessOf(body) ==
    IF body = "success_true" THEN "true"
    ELSE IF body = "success_1" THEN "1"
    ELSE "false"

\* The truth value Python gives such a value in "if value:".
JsonTruthy(literal) == literal \notin {"false", "0", "null"}

RECURSIVE JoinComma(_)
\* ', '.join(items) for a list of texts.
JoinComma(items) ==
    IF items = <<>> THEN <<>>
    ELSE IF Len(items) = 1 THEN items[1]
    ELSE items[1] \o <<", ">> \o JoinComma(Tail(items))

\* A list of one-token texts from a list of tokens.
Texts(tokens) == [k \in DOMAIN tokens |-> <<tokens[k]>>]

\* Lines 150-157: how one contact is named in the row.
DecisionMaker(contact) ==
    LET name == IF contact.first_name # "" /\ contact.last_name # ""
                THEN <<contact.first_name, " ", contact.last_name>>
                ELSE IF contact.first_name # "" THEN <<contact.first_name>>
                ELSE IF contact.last_name # "" THEN <<contact.last_name>>
                ELSE <<>>
    IN  IF name # <<>> /\ contact.position # ""
        THEN << name \o <<" (", contact.position, ")">> >>
        ELSE IF name # <<>> THEN <<name>>
        ELSE IF contact.position # "" THEN << <<contact.position>> >>
        ELSE <<>>

\* The row's categories with a mistake a maintainer could make: two of the
\* five lines are in the other order.
RowHardwareNeedsSwapped(hardware_opportunity) ==
    (IF hardware_opportunity["workstations"] THEN <<"Workstations">> ELSE <<>>)
    \o (IF hardware_opportunity["networking"] THEN <<"Networking">> ELSE <<>>)
    \o (IF hardware_opportunity["servers"] THEN <<"Servers">> ELSE <<>>)
    \o (IF hardware_opportunity["storage"] THEN <<"Storage">> ELSE <<>>)
    \o (IF hardware_opportunity["peripherals"] THEN <<"Peripherals">> ELSE <<>>)

\* Lines 160-167: the hardware categories of one row for the remote sheet.
RowHardwareNeeds(hardware_opportunity) ==
    (IF hardware_opportunity["workstations"] THEN <<"Workstations">> ELSE <<>>)
    \o (IF hardware_opportunity["servers"] THEN <<"Servers">> ELSE <<>>)
    \o (IF hardware_opportunity["networking"] THEN <<"Networking">> ELSE <<>>)
    \o (IF hardware_opportunity["storage"] THEN <<"Storage">> ELSE <<>>)
    \o (IF hardware_opportunity["peripherals"] THEN <<"Peripherals">> ELSE <<>>)

\* Lines 311-316: the hardware categories display_leads_summary derives.
DisplayHardwareNeeds(hardware_needs) ==
    (IF hardware_needs["workstations"] THEN <<"Workstations">> ELSE <<>>)
    \o (IF hardware_needs["servers"] THEN <<"Servers">> ELSE <<>>)
    \o (IF hardware_needs["networking"] THEN <<"Networking">> ELSE <<>>)
    \o (IF hardware_needs["storage"] THEN <<"Storage">> ELSE <<>>)
    \o (IF hardware_needs["peripherals"] THEN <<"Peripherals">> ELSE <<>>)

\* Lines 318-321: the line display_leads_summary prints for them.
DisplayHardwareLine(needs) ==
    IF needs # <<>> THEN JoinComma(Texts(needs)) ELSE <<"General IT needs">>

\* datetime.now().isoformat(): the time a record was built.
GeneratedAt == "2026-11-02T09:30:00"

\* Lines 141-183: the row of one lead for the remote sheet.
SheetRow(lead) ==
    LET with_email == SelectSeq(lead.contacts, LAMBDA c : c.email # "")
        contact_emails == [k \in DOMAIN with_email |-> with_email[k].email]
        decision_makers ==
            Concat([k \in DOMAIN with_email |-> DecisionMaker(with_email[k])])
    IN  [company_name |-> lead.company.name,
         website |-> lead.company.website,
         employee_count |-> lead.company.employee_count,
         industry |-> lead.company.industry,
         location |-> lead.company.location,
         business_summary |-> lead.insights.business_summary,
         hardware_opportunities |->
             JoinComma(Texts(RowHardwareNeeds(
                           lead.insights.hardware_opportunity))),
         decision_maker_hint |-> lead.insights.decision_maker_hint,
         contact_emails |-> JoinComma(Texts(contact_emails)),
         decision_makers |-> JoinComma(decision_makers),
         personalized_message |-> lead.personalized_message,
         generated_at |-> GeneratedAt]

\* Lines 207-221: the record of one lead in the local snapshot.
SnapshotRecord(lead) ==
    [company |-> [name |-> lead.company.name,
                  website |-> lead.company.website,
                  employee_count |-> lead.company.employee_count,
                  industry |-> lead.company.industry,
                  location |-> lead.company.location],
     insights |-> lead.insights,
     personalized_message |-> lead.personalized_message,
     contacts |-> lead.contacts,
     generated_at |-> GeneratedAt]

\* _save_to_google_sheets with a mistake a maintainer could make: the last
\* handler is missing, so a body that is no object raises AttributeError.
SaveToGoogleSheetsNoCatchAll(endpoint, resp) ==
    IF ~Truthy(endpoint) THEN Returned(FALSE)
    ELSE IF resp.kind \in {"timeout", "connection_error"} THEN Returned(FALSE)
    ELSE IF resp.status # 200 THEN Returned(FALSE)
    ELSE IF resp.body = "not_json" THEN Returned(FALSE)
    ELSE IF resp.body = "json_array" THEN Raised("AttributeError", FALSE)
    ELSE Returned(JsonTruthy(SuccessOf(resp.body)))

\* _save_to_google_sheets with a mistake a maintainer could make: status 200
\* alone counts as success.
SaveToGoogleSheetsStatusOnly(endpoint, resp) ==
    Returned(Truthy(endpoint) /\ resp.kind = "http" /\ resp.status = 200)

\* _save_to_google_sheets (lines 244-282): True only for status 200 with a
\* JSON object whose "success" is truthy; every exception is caught.
SaveToGoogleSheets(endpoint, resp) ==
    IF ~Truthy(endpoint) THEN Returned(FALSE)
    ELSE IF resp.kind = "timeout" THEN Returned(FALSE)
    ELSE IF resp.kind = "connection_error" THEN Returned(FALSE)
    ELSE IF resp.status # 200 THEN Returned(FALSE)
    ELSE IF ~ParsesToObject(resp.body) THEN Returned(FALSE)
    ELSE Returned(JsonTruthy(SuccessOf(resp.body)))

\* What the local file system can do with the snapshot.
FsOutcomes == {"ok", "makedirs_denied", "open_denied", "disk_full"}

\* One file: its path, what was dumped into it, and whether the dump ended.
File(path, data, complete) ==
    [path |-> path, data |-> data, complete |-> complete]

\* open(path, 'w'): the file is created or emptied.
Opened(fsys, path) ==
    {f \in fsys : f.path # path} \cup {File(path, <<>>, FALSE)}

\* Lines 203 and 224-225: makedirs on the directory part, open, json.dump.
\* makedirs('') raises FileNotFoundError; nothing here is caught.
WriteSnapshot(fsys, path, data, fs) ==
    IF DirName(path) = <<>> THEN Raised("FileNotFoundError", fsys)
    ELSE IF fs = "makedirs_denied" THEN Raised("PermissionError", fsys)
    ELSE IF fs = "open_denied" THEN Raised("PermissionError", fsys)
    ELSE IF fs = "disk_full" THEN Raised("OSError", Opened(fsys, path))
    ELSE Returned({f \in fsys : f.path # path} \cup {File(path, data, TRUE)})

\* Two leads as process_leads builds them (lines 102-107).
LeadAcme ==
    Lead(CompanyOf([name |-> "Acme", website_url |-> "acme.com",
                    industry |-> "hardware"]),
         ModelDumpInsights(CompanyInsights(InsightsGood)),
         FormatEmail(OutreachMessage(MessageGood)),
         <<ModelDumpContact(ContactInfo(EmailEntry))>>)

LeadBeta ==
    LET company == CompanyOf([name |-> "Beta", website_url |-> "https://beta.io",
                              industry |-> "retail"])
    IN  Lead(company, ModelDumpInsights(FallbackInsights),
             FormatEmail(FallbackMessage(company, FallbackInsights)), <<>>)

\* main.py line 65: what process_leads hands to main.
ProcessLeadsOutcomes ==
    {Raised("EnrichmentError", <<>>)}
    \cup {Returned(ls) : ls \in SeqsUpTo({LeadAcme, LeadBeta}, MaxLeadsArg)}

\* main's handler with a mistake a maintainer could make: the exception is
\* logged and not raised again.
MainExceptSwallowed(exc) == "returned"

\* main.py lines 85-87: the exception is logged and raised again.
MainExcept(exc) == "raised"

\* main's check with a mistake a maintainer could make: an empty list is
\* displayed and saved like any other.
AfterProcessLeadsNoCheck(ls) == "display"

\* main.py lines 67-69: with no leads main returns at once.
AfterProcessLeads(ls) == IF ls = <<>> THEN "returned" ELSE "display"

\* process_leads is not running.
PipelineIdle ==
    /\ size_range = "201-500"
    /\ max_leads = 0
    /\ pc = "idle"
    /\ companies = <<>>
    /\ companies_to_process = <<>>
    /\ i = 0
    /\ insights = <<>>
    /\ contacts = <<>>
    /\ enriched_leads = <<>>
    /\ result = <<>>
    /\ error = NoError
    /\ calls = <<>>
    /\ escaped = {}
    /\ lookup_failed = {}
    /\ lead_of = <<>>
    /\ ref_contacts = <<>>
    /\ ref_leads = <<>>

\* What a run of main leaves alone.
beside_main == <<pipeline_vars, fn_vars, retry_vars, wait_vars>>

MainInit ==
    /\ PipelineIdle
    /\ FnIdle
    /\ RetryIdle
    /\ WaitIdle
    /\ output_file \in {<<>>} \cup {<<path>> : path \in Paths}
    /\ google_sheets_endpoint \in Endpoints
    /\ m_pc = "start"
    /\ leads = <<>>
    /\ summarized = FALSE
    /\ timestamp = ""
    /\ response = <<>>
    /\ google_sheets_success = FALSE
    /\ filename = <<>>
    /\ sheet = <<>>
    /\ files = {}
    /\ saved = <<>>
    /\ main_error = "none"
    /\ trail = <<>>

\* main.py lines 85-87 for an exception raised inside main's try.
MainFails(exc) ==
    /\ m_pc' = MainExcept(exc)
    /\ main_error' = IF MainExcept(exc) = "raised" THEN exc ELSE "none"

\* main.py lines 38-58: the configuration is loaded; a missing key raises
\* ValueError out of load_config.
LoadConfig ==
    /\ m_pc = "start"
    /\ \E keys_present \in BOOLEAN :
          IF keys_present
          THEN m_pc' = "process" /\ UNCHANGED main_error
          ELSE MainFails("ValueError")
    /\ UNCHANGED beside_main
    /\ UNCHANGED <<output_file, google_sheets_endpoint, leads, summarized,
                   timestamp, response, google_sheets_success, filename, sheet,
                   files, saved, trail>>

\* main.py lines 61-69: process_leads is called; no leads ends main.
ProcessLeadsCall ==
    /\ m_pc = "process"
    /\ \E o \in ProcessLeadsOutcomes :
          IF o.raised
          THEN MainFails(o.exc) /\ UNCHANGED leads
          ELSE /\ leads' = o.value
               /\ m_pc' = AfterProcessLeads(o.value)
               /\ UNCHANGED main_error
    /\ UNCHANGED beside_main
    /\ UNCHANGED <<output_file, google_sheets_endpoint, summarized, timestamp,
                   response, google_sheets_success, filename, sheet, files,
                   saved, trail>>

\* main.py line 72: the summary is printed.
DisplayLeadsSummary ==
    /\ m_pc = "display"
    /\ summarized' = TRUE
    /\ m_pc' = "save"
    /\ UNCHANGED beside_main
    /\ UNCHANGED <<output_file, google_sheets_endpoint, leads, timestamp,
                   response, google_sheets_success, filename, sheet, files,
                   saved, main_error, trail>>

\* main.py line 75 and enrichment.py lines 137-196: save_leads_to_file is
\* entered, the rows are built and, with an endpoint, posted to it.
SaveRemote ==
    /\ m_pc = "save"
    /\ filename' = output_file
    /\ \E ts \in Timestamps : timestamp' = ts
    /\ IF Truthy(google_sheets_endpoint)
       THEN \E resp \in SheetResponses :
               LET r == SaveToGoogleSheets(google_sheets_endpoint, resp)
                   leads_data == [k \in DOMAIN leads |-> SheetRow(leads[k])]
               IN  /\ response' = <<resp>>
                   /\ google_sheets_success' = (~r.raised /\ r.value)
                   /\ sheet' = IF resp.appended THEN sheet \o leads_data
                               ELSE sheet
                   /\ trail' = Append(trail, "remote_attempt_finished")
       ELSE UNCHANGED <<response, google_sheets_success, sheet, trail>>
    /\ m_pc' = "local"
    /\ UNCHANGED beside_main
    /\ UNCHANGED <<output_file, google_sheets_endpoint, leads, summarized,
                   files, saved, main_error>>

\* enrichment.py lines 198-232: the path is chosen, the directory made, the
\* snapshot dumped and the destination returned; an exception of the file
\* system leaves save_leads_to_file and reaches main's handler.
SaveLocal ==
    /\ m_pc = "local"
    /\ LET path == SnapshotPath(filename, timestamp)
           full_leads_data == [k \in DOMAIN leads |-> SnapshotRecord(leads[k])]
       IN  /\ filename' = <<path>>
           /\ \E fs \in FsOutcomes :
                 LET w == WriteSnapshot(files, path, full_leads_data, fs)
                 IN  /\ files' = w.value
                     /\ IF w.raised
                        THEN /\ MainFails(w.exc)
                             /\ trail' = Append(trail, "local_write_failed")
                             /\ UNCHANGED saved
                        ELSE /\ saved' = <<IF google_sheets_success
                                           THEN SheetsAndLocal ELSE path>>
                             /\ trail' = Append(trail, "local_write")
                             /\ m_pc' = "saved"
                             /\ UNCHANGED main_error
    /\ UNCHANGED beside_main
    /\ UNCHANGED <<output_file, google_sheets_endpoint, leads, summarized,
                   timestamp, response, google_sheets_success, sheet>>

\* main.py lines 76-83: success is logged and the first message printed.
ReportSuccess ==
    /\ m_pc = "saved"
    /\ trail' = Append(trail, "completed_successfully")
    /\ m_pc' = "returned"
    /\ UNCHANGED beside_main
    /\ UNCHANGED <<output_file, google_sheets_endpoint, leads, summarized,
                   timestamp, response, google_sheets_success, filename, sheet,
                   files, saved, main_error>>

MainNext ==
    \/ LoadConfig
    \/ ProcessLeadsCall
    \/ DisplayLeadsSummary
    \/ SaveRemote
    \/ SaveLocal
    \/ ReportSuccess

MainSpec == MainInit /\ [][MainNext]_vars

\* ------------------------------------------------------------- properties

\* A company has a website when the field is neither None nor empty.
HasWebsite(c) == c.website # None /\ c.website # ""

NumWithWebsite(s) == Cardinality({k \in DOMAIN s : HasWebsite(s[k])})

CompaniesOf(ls) == [k \in DOMAIN ls |-> ls[k].company]

RECURSIVE IsSubsequence(_, _)
\* a can be obtained from b by deleting entries.
IsSubsequence(a, b) ==
    IF a = <<>> THEN TRUE
    ELSE IF b = <<>> THEN FALSE
    ELSE IF Head(a) = Head(b) THEN IsSubsequence(Tail(a), Tail(b))
    ELSE IsSubsequence(a, Tail(b))

EscapedAt == {e.idx : e \in escaped}

ScraperCalledFor(j) ==
    \E c \in DOMAIN calls : calls[c].svc = "scraper" /\ calls[c].idx = j

LeadFor(j) ==
    \E k \in DOMAIN lead_of :
        /\ lead_of[k] = j
        /\ enriched_leads[k].company = companies_to_process[j]

InsightKeys ==
    {"business_summary", "company_size_indicator", "key_insights",
     "hardware_opportunity", "decision_maker_hint", "personalization_hook"}

\* C1: an exception that escapes a stage of company j never aborts the
\* batch: the run has raised nothing to its caller, company j has no lead,
\* the run can always go on, and once it has returned it has called the
\* insight extractor for every later company with a website and holds a lead
\* for every company with a website whose stages raised nothing.
C1_FailureNeverAbortsBatch ==
    \A e \in escaped :
        /\ pc # "raised"
        /\ error = NoError
        /\ \A k \in DOMAIN lead_of : lead_of[k] # e.idx
        /\ pc # "done" => ENABLED Next
        /\ pc = "done" =>
              /\ result = <<enriched_leads>>
              /\ \A j \in (e.idx + 1)..Len(companies_to_process) :
                    HasWebsite(companies_to_process[j]) => ScraperCalledFor(j)
              /\ \A j \in 1..Len(companies_to_process) :
                    (HasWebsite(companies_to_process[j]) /\ j \notin EscapedAt)
                        => LeadFor(j)

\* C1 witness: the first company's composer call raised, the second company
\* was processed, and the run returned the second company's lead alone.
C1_Witness ==
    /\ pc = "done"
    /\ escaped = {[idx |-> 1, step |-> "composer"]}
    /\ lead_of = <<2>>
    /\ Len(result[1]) = 1

\* C2: process_leads raises only when the directory lookup raised; what it
\* raises is one EnrichmentError, and by then the lookup is the only
\* collaborator call of the run.  A stage failure never ends in a raise.
C2_OnlyLookupFailureRaises ==
    /\ (pc = "raised") <=> (error # NoError)
    /\ pc = "raised" =>
          /\ error.type = "EnrichmentError"
          /\ error.cause \in {"ApolloApiError", "ValueError"}
          /\ calls = <<[svc |-> "directory", idx |-> 0, outcome |-> "raised"]>>
          /\ escaped = {}
          /\ result = <<>>

\* C2 witness: the lookup failed and the run raised EnrichmentError.
C2_Witness ==
    /\ pc = "raised"
    /\ error = EnrichmentError("ApolloApiError")
    /\ Len(calls) = 1

\* C3: the message composer is total: no call of generate_message raises,
\* and no company is dropped because of the composer.
C3_ComposerNeverRaises ==
    /\ \A c \in DOMAIN calls :
          calls[c].svc = "composer" => calls[c].outcome = "returned"
    /\ \A e \in escaped : e.step # "composer"

\* C4: the insight extractor is total: no call of scrape_website raises, no
\* company is dropped because of it, and what it returned is a populated
\* CompanyInsights with at most three key insights.
C4_ExtractorTotal ==
    /\ \A c \in DOMAIN calls :
          calls[c].svc = "scraper" => calls[c].outcome = "returned"
    /\ \A e \in escaped : e.step # "scraper"
    /\ pc \in {"contacts", "compose"} =>
          /\ Len(insights) = 1
          /\ DOMAIN insights[1] = InsightKeys
          /\ insights[1].business_summary # None
          /\ insights[1].company_size_indicator # None
          /\ insights[1].personalization_hook # None
          /\ Len(insights[1].key_insights) <= 3
          /\ DOMAIN insights[1].hardware_opportunity = HardwareFlags

\* C4 witness: the extractor has just answered a failure with the fallback.
C4_Witness ==
    /\ pc = "contacts"
    /\ insights = <<FallbackInsights>>
    /\ calls[Len(calls)] = [svc |-> "scraper", idx |-> i, outcome |-> "returned"]

\* C5: a failed contact search for company j leaves the run exactly where a
\* search that found nobody leaves it: the list equals that of the reference
\* run, lead by lead, and company j, unless its composer call raised, has a
\* lead with an empty contact list.
C5_ContactFailureIsZeroContacts ==
    /\ enriched_leads = ref_leads
    /\ \A j \in lookup_failed :
          j < i =>
              \/ [idx |-> j, step |-> "composer"] \in escaped
              \/ \E k \in DOMAIN lead_of :
                    /\ lead_of[k] = j
                    /\ enriched_leads[k].company = companies_to_process[j]
                    /\ enriched_leads[k].contacts = <<>>

\* C5 witness: the search failed for the first company only; both companies
\* have their lead, the first without contacts, the second with one.
C5_Witness ==
    /\ pc = "done"
    /\ lookup_failed = {1}
    /\ lead_of = <<1, 2>>
    /\ enriched_leads[1].contacts = <<>>
    /\ Len(enriched_leads[2].contacts) = 1

\* C6 as stated, for max_leads >= 0: the returned list and the companies
\* dropped by a failure together number min(max_leads, directory results
\* with a website).
C6_LengthIsMinOfLimitAndWebsites ==
    (pc = "done" /\ max_leads >= 0) =>
        Len(result[1]) + Cardinality(EscapedAt)
            = Min(max_leads, NumWithWebsite(companies))

\* C6 amended: the returned list and the companies dropped by a failure
\* together number the companies with a website inside the truncated list
\* (truncation comes before the website check), which for max_leads >= 0 is
\* at most min(max_leads, directory results with a website).
C6_LengthCountsWebsitesInPrefix ==
    pc = "done" =>
        LET n == Len(companies)
            stop == IF max_leads >= 0 THEN Min(max_leads, n)
                    ELSE Max(n + max_leads, 0)
        IN  /\ Len(result[1]) + Cardinality(EscapedAt)
                  = NumWithWebsite(SubSeq(companies, 1, stop))
            /\ max_leads >= 0 =>
                  Len(result[1]) <= Min(max_leads, NumWithWebsite(companies))

\* C6 witness: the limit is 1, the first of two companies has no website and
\* the second has one: nothing is returned.
C6_Witness ==
    /\ pc = "done"
    /\ max_leads = 1
    /\ Len(companies) = 2
    /\ ~HasWebsite(companies[1])
    /\ HasWebsite(companies[2])
    /\ result = << <<>> >>

\* C7: no lead is ever held for a company without a website; and when the
\* directory returns two companies, exactly one of them with a website, the
\* limit is 2 and no stage raises, exactly that company's lead is returned.
C7_NoLeadWithoutWebsite ==
    /\ \A k \in DOMAIN enriched_leads : HasWebsite(enriched_leads[k].company)
    /\ pc = "done" =>
          \A k \in DOMAIN result[1] : HasWebsite(result[1][k].company)
    /\ (/\ pc = "done"
        /\ max_leads = 2
        /\ Len(companies) = 2
        /\ NumWithWebsite(companies) = 1
        /\ escaped = {}) =>
          /\ Len(result[1]) = 1
          /\ \E j \in 1..2 :
                HasWebsite(companies[j]) /\ result[1][1].company = companies[j]

\* C7 witness: the scenario itself, the company without a website first.
C7_Witness ==
    /\ pc = "done"
    /\ max_leads = 2
    /\ Len(companies) = 2
    /\ ~HasWebsite(companies[1])
    /\ HasWebsite(companies[2])
    /\ escaped = {}
    /\ Len(result[1]) = 1

\* C8: when the directory lookup returns an empty list, the run returns an
\* empty list, raises nothing, and the lookup is its only collaborator call.
C8_EmptyDirectoryReturnsEmpty ==
    (/\ Len(calls) >= 1
     /\ calls[1] = [svc |-> "directory", idx |-> 0, outcome |-> "returned"]
     /\ companies = <<>>) =>
        /\ pc = "done"
        /\ result = << <<>> >>
        /\ error = NoError
        /\ Len(calls) = 1

\* C8 witness: the lookup returned no company and the run is over.
C8_Witness ==
    /\ pc = "done"
    /\ companies = <<>>
    /\ calls = <<[svc |-> "directory", idx |-> 0, outcome |-> "returned"]>>
    /\ result = << <<>> >>

\* C9: the companies of the returned leads are a subsequence of the first
\* max_leads entries of the directory result.
C9_LeadsSubsequenceOfFirstMaxLeads ==
    pc = "done" =>
        IsSubsequence(CompaniesOf(result[1]),
                      SubSeq(companies, 1,
                             Min(Max(max_leads, 0), Len(companies))))

\* C10: every lead in the list, at every moment and in what is returned, is
\* complete: an insight dict with all its keys, a non-empty formatted
\* message, a list of contacts, and a company with a website.
C10_LeadsComplete ==
    /\ \A k \in DOMAIN enriched_leads :
          LET l == enriched_leads[k]
          IN  /\ DOMAIN l.insights = InsightKeys
              /\ l.insights.business_summary # None
              /\ DOMAIN l.insights.hardware_opportunity = HardwareFlags
              /\ Len(l.personalized_message) > 0
              /\ DOMAIN l.contacts = 1..Len(l.contacts)
              /\ \A c \in DOMAIN l.contacts : l.contacts[c].email # None
              /\ HasWebsite(l.company)
    /\ pc = "done" => result[1] = enriched_leads \/ result[1] = <<>>

\* C10 witness: a returned lead built from fallback insights, no contacts and
\* a message whose seven fields the language model left empty.
C10_Witness ==
    /\ pc = "done"
    /\ Len(result[1]) >= 1
    /\ result[1][1].insights = ModelDumpInsights(FallbackInsights)
    /\ result[1][1].contacts = <<>>
    /\ result[1][1].personalized_message = FormatEmail(OutreachMessage(MessageBlank))

\* The stages of one company, in the order of lines 80-100.
StageOrder == <<"scraper", "hunter", "composer">>

\* The collaborators called for company j, in the order of the calls.
StagesCalledFor(j) ==
    LET mine == SelectSeq(calls, LAMBDA c : c.idx = j)
    IN  [k \in DOMAIN mine |-> mine[k].svc]

IsPrefix(a, b) == Len(a) <= Len(b) /\ a = SubSeq(b, 1, Len(a))

\* Company k has been appended to the list or skipped.
Settled(k) ==
    \/ ~HasWebsite(companies_to_process[k])
    \/ LeadFor(k)
    \/ k \in EscapedAt

\* C19: the calls for one company are scraper, hunter, composer, each at most
\* once and each right after the previous one returned; a company that got a
\* lead had all three; the calls of different companies do not interleave;
\* and when a call for a company is made, every earlier company has been
\* appended or skipped.
C19_StrictlySequential ==
    /\ \A j \in DOMAIN companies_to_process :
           /\ IsPrefix(StagesCalledFor(j), StageOrder)
           /\ LeadFor(j) => StagesCalledFor(j) = StageOrder
    /\ \A c \in DOMAIN calls :
           /\ calls[c].svc \in {"hunter", "composer"} =>
                  /\ calls[c - 1].idx = calls[c].idx
                  /\ calls[c - 1].outcome = "returned"
           /\ \A d \in DOMAIN calls : c < d => calls[c].idx <= calls[d].idx
           /\ \A k \in 1..(calls[c].idx - 1) : Settled(k)

\* C19's case: two companies went through all three stages, one after the
\* other, and the list was returned.
C19_Witness ==
    /\ pc = "done"
    /\ Len(calls) = 7
    /\ LeadFor(1) /\ LeadFor(2)

\* C20: every call of the insight extractor, the contact directory or the
\* message composer is for a company among the first max_leads entries of
\* the directory's result, and one with a non-empty website.
C20_NoCallBeyondLimitOrWithoutWebsite ==
    \A c \in DOMAIN calls :
        calls[c].svc # "directory" =>
            /\ calls[c].idx <= Max(max_leads, 0)
            /\ calls[c].idx <= Len(companies)
            /\ HasWebsite(companies[calls[c].idx])

\* C22: the list is append-only: every step leaves it as it is or adds one
\* lead at its end, the leads already in it staying what and where they
\* were; and no company has two leads.
C22_ListIsAppendOnly ==
    /\ [](\A k1, k2 \in DOMAIN lead_of : lead_of[k1] = lead_of[k2] => k1 = k2)
    /\ [][/\ Len(enriched_leads') \in {Len(enriched_leads), Len(enriched_leads) + 1}
          /\ SubSeq(enriched_leads', 1, Len(enriched_leads)) = enriched_leads]_vars

\* C22's case: a second lead, for another company, was added to a list that
\* held one.
C22_Witness ==
    /\ Len(enriched_leads) = 2
    /\ enriched_leads[1].company # enriched_leads[2].company

\* The first n entries of the directory's result, none for n <= 0.
FirstEntries(n) == SubSeq(companies, 1, Min(Max(n, 0), Len(companies)))

\* The companies for which a collaborator was called.
CompaniesCalledFor == {calls[c].idx : c \in DOMAIN calls} \ {0}

\* C26: when the run has returned and no stage raised for any company, the
\* number of leads is the number of companies with a non-empty website among
\* the first max_leads entries of the directory's result.
C26_ExactOutputCount ==
    (pc = "done" /\ escaped = {}) =>
        Len(result[1]) = NumWithWebsite(FirstEntries(max_leads))

\* C27: for every max_leads, zero and negative included, the run returns at
\* most max(0, max_leads) leads and calls collaborators for at most
\* max(0, max_leads) companies.
C27_AtMostMaxLeads ==
    /\ Cardinality(CompaniesCalledFor) <= Max(0, max_leads)
    /\ pc = "done" => Len(result[1]) <= Max(0, max_leads)

\* ------------------------------------------- properties of main and the save

\* save_leads_to_file has been entered, and it has ended.
SaveEntered == timestamp # ""

SaveEnded == SaveEntered /\ m_pc \in {"saved", "returned", "raised"}

\* The file system itself refused the directory, the file or the bytes.
FsFailure == main_error \in {"PermissionError", "OSError"}

SnapshotOf(ls) == [k \in DOMAIN ls |-> SnapshotRecord(ls[k])]

\* The complete snapshot of the leads is in the file at path.
WrittenAt(path) == File(path, SnapshotOf(leads), TRUE) \in files

\* a is in the trail, and before b.
Before(a, b) ==
    \E p, q \in DOMAIN trail : p < q /\ trail[p] = a /\ trail[q] = b

\* An explicit, non-empty path was given on the command line.
PathGiven == output_file # <<>> /\ output_file[1] # <<>>

\* The endpoint is configured and answered 200 with a success report.
RemoteAppendSucceeded ==
    /\ Truthy(google_sheets_endpoint)
    /\ response # <<>>
    /\ response[1].kind = "http"
    /\ response[1].status = 200
    /\ response[1].body \in {"success_true", "success_1"}

\* C11: on every call of save_leads_to_file on which the file system itself
\* refuses nothing, the local snapshot has been written when the call ends,
\* and after the remote attempt finished if there was one, whatever that
\* attempt's outcome.
C11_LocalWriteOnEveryCall ==
    (SaveEnded /\ ~FsFailure) =>
        /\ \E f \in files : f.complete /\ f.data = SnapshotOf(leads)
        /\ \E p \in DOMAIN trail : trail[p] = "local_write"
        /\ response # <<>> => Before("remote_attempt_finished", "local_write")

\* C12: when the save has ended and the file system refused nothing, the
\* snapshot is in exactly the path given on the command line, whatever that
\* path is, a bare file name included, and in the default path only when no
\* path was given.
C12_SnapshotAtGivenPath ==
    (SaveEnded /\ ~FsFailure) =>
        IF PathGiven
        THEN files = {File(output_file[1], SnapshotOf(leads), TRUE)}
        ELSE files = {File(DefaultFilename(timestamp), SnapshotOf(leads), TRUE)}

\* C13: what save_leads_to_file returns is the remote-and-local text exactly
\* when the endpoint is configured and its append succeeded; otherwise it is
\* the path of the local file, and the snapshot is in that file.
C13_ReturnTellsDestinations ==
    saved # <<>> =>
        /\ saved[1] = SheetsAndLocal <=> RemoteAppendSucceeded
        /\ RemoteAppendSucceeded =>
               sheet = [k \in DOMAIN leads |-> SheetRow(leads[k])]
        /\ ~RemoteAppendSucceeded =>
               saved[1] = filename[1] /\ WrittenAt(saved[1])
        /\ WrittenAt(filename[1])

\* C13's cases: a save that returned the remote-and-local text, or returned
\* the path after the endpoint answered without success.
C13_Witness ==
    /\ saved # <<>>
    /\ response # <<>>
    /\ \/ saved[1] = SheetsAndLocal
       \/ response[1].body = "success_false" /\ saved[1] = filename[1]

\* The event is in the trail.
Happened(event) == \E p \in DOMAIN trail : trail[p] = event

\* C17: once the local write has failed, save_leads_to_file has returned
\* nothing, main has raised the file system's exception to its caller, no
\* success was logged and no complete snapshot exists.
C17_LocalFailurePropagates ==
    Happened("local_write_failed") =>
        /\ saved = <<>>
        /\ m_pc = "raised"
        /\ main_error \in {"FileNotFoundError", "PermissionError", "OSError"}
        /\ ~Happened("completed_successfully")
        /\ \A f \in files : ~f.complete

\* C17's case: the disk filled up during the dump, after the remote append
\* had succeeded.
C17_Witness ==
    /\ Happened("local_write_failed")
    /\ main_error = "OSError"
    /\ RemoteAppendSucceeded

\* The local write has been attempted: it finished, or it failed.
LocalWriteAttempted ==
    Happened("local_write") \/ Happened("local_write_failed")

\* C30: there is no rollback. When the remote append has succeeded and the
\* local write then fails, save_leads_to_file returns nothing and main raises
\* while the rows of all the leads stay in the remote store; and once the
\* local write has been attempted the remote store is not written again.
C30_NoRollback ==
    /\ [](RemoteAppendSucceeded /\ Happened("local_write_failed") =>
              /\ saved = <<>>
              /\ m_pc = "raised"
              /\ main_error # "none"
              /\ sheet = [k \in DOMAIN leads |-> SheetRow(leads[k])]
              /\ Before("remote_attempt_finished", "local_write_failed"))
    /\ [][LocalWriteAttempted => sheet' = sheet]_vars

\* C30's case: the endpoint appended two rows and reported success, and the
\* directory of the snapshot could then not be written.
C30_Witness ==
    /\ RemoteAppendSucceeded
    /\ Happened("local_write_failed")
    /\ main_error = "PermissionError"
    /\ Len(sheet) = 2

\* C18: main returns normally only with no leads and nothing persisted, or
\* with leads that were summarized and persisted; a save that returned is
\* followed by no failure; and an EnrichmentError of the pipeline is raised
\* by main with nothing summarized or persisted.
C18_MainOutcomes ==
    /\ m_pc = "returned" =>
           \/ /\ leads = <<>>
              /\ ~summarized /\ saved = <<>> /\ files = {} /\ sheet = <<>>
              /\ response = <<>>
           \/ /\ leads # <<>>
              /\ summarized /\ saved # <<>> /\ WrittenAt(filename[1])
    /\ saved # <<>> => m_pc \in {"saved", "returned"} /\ main_error = "none"
    /\ main_error = "EnrichmentError" =>
           /\ m_pc = "raised"
           /\ ~summarized /\ saved = <<>> /\ files = {} /\ sheet = <<>>
           /\ response = <<>>

\* C18's case: main has returned after leads were summarized and persisted.
C18_Witness ==
    /\ m_pc = "returned"
    /\ Len(leads) = 2
    /\ summarized
    /\ WrittenAt(filename[1])

\* C25 as first stated: the remote sink reports success exactly when the
\* response has status 200 and a JSON body whose "success" is true.
C25_SuccessIffStatus200AndTrue ==
    response # <<>> =>
        (google_sheets_success <=>
            /\ response[1].kind = "http"
            /\ response[1].status = 200
            /\ response[1].body = "success_true")

\* C25: the remote sink never raises, and it reports success exactly when
\* the response has status 200 and a JSON object as body whose "success" is
\* truthy; a timeout, a request error, another status, an unparsable body, a
\* body that is no object and a false or missing "success" all report
\* failure.
C25_SuccessIffStatus200AndTruthy ==
    response # <<>> =>
        /\ ~SaveToGoogleSheets(google_sheets_endpoint, response[1]).raised
        /\ google_sheets_success <=>
               /\ response[1].kind = "http"
               /\ response[1].status = 200
               /\ ParsesToObject(response[1].body)
               /\ SuccessOf(response[1].body) \in {"true", "1"}
        /\ (\/ response[1].kind \in {"timeout", "connection_error"}
            \/ response[1].status # 200
            \/ response[1].body \in {"not_json", "json_array", "no_success_key",
                                     "success_false"})
               => ~google_sheets_success

\* C25's case: the endpoint answered 200 with "success": 1 and the sink
\* reported success.
C25_Witness ==
    /\ response # <<>>
    /\ response[1].body = "success_1"
    /\ google_sheets_success

\* --------------------------------------------- the @retry wrapper (services)

\* stop_after_attempt(3), the same on every wrapped function.
StopAfterAttempt == 3

\* The wrapped functions the pipeline calls.
RetryLeaves ==
    {"find_companies", "find_emails_by_domain", "scrape_website",
     "_analyze_with_ai"}

\* What the remote side can answer to one attempt of each of them.
LeafAnswers(f) ==
    IF f = "find_companies"
    THEN {r \in ApolloResponses : Len(r.organizations) <= 1}
    ELSE IF f = "find_emails_by_domain" THEN HunterResponses
    ELSE IF f = "_analyze_with_ai" THEN InsightLLMResponses \cup OddLLMResponses
    ELSE { [page |-> pg, llm |-> l] :
               pg \in PageResponses,
               l \in { [kind |-> "request_error", data |-> InsightsGood],
                       [kind |-> "json", data |-> InsightsGood],
                       [kind |-> "json", data |-> InsightsNoHook] } }

\* One run of the wrapped function's body against one answer.
LeafBody(f, answer) ==
    IF f = "find_companies" THEN FindCompanies("201-500", answer)
    ELSE IF f = "find_emails_by_domain" THEN FindEmailsByDomain(answer)
    ELSE IF f = "_analyze_with_ai" THEN AnalyzeWithAI(answer)
    ELSE ScrapeWebsite(answer.page, answer.llm)

\* The exception classes of this model.
ExceptionClasses ==
    {"Exception", "RequestException", "ApolloApiError", "HunterError",
     "ScraperError", "APIError", "TypeError", "JSONDecodeError",
     "ValidationError", "RetryError"}

\* The classes each decorator's retry= lambda accepts: those it names, and
\* for _analyze_with_ai every Exception but the two it excludes.
RetryOn(f) ==
    IF f = "find_companies" THEN {"RequestException", "ApolloApiError"}
    ELSE IF f = "find_emails_by_domain" THEN {"RequestException", "HunterError"}
    ELSE IF f = "_analyze_with_ai"
    THEN ExceptionClasses \ {"JSONDecodeError", "ValidationError"}
    ELSE {"RequestException", "ScraperError"}

\* What tenacity hands to the retry= callable: the state of the call, which
\* holds the attempt's outcome; it is not the exception.
RetryCallState(n, o) ==
    [class |-> "RetryCallState", attempt_number |-> n, outcome |-> o]

\* isinstance(x, classes) for the objects of this model.
IsInstance(x, classes) == x.class \in classes

\* retry=lambda x: isinstance(x, (...)).
RetryPredicate(f, x) == IsInstance(x, RetryOn(f))

\* What a wrapped call leaves alone.
beside_retry == <<pipeline_vars, main_vars, fn_vars, wait_vars>>

RetryInit ==
    /\ PipelineIdle
    /\ MainIdle
    /\ FnIdle
    /\ WaitIdle
    /\ leaf \in RetryLeaves
    /\ answers \in [1..StopAfterAttempt -> LeafAnswers(leaf)]
    /\ attempt_number = 1
    /\ outcome = <<>>
    /\ r_pc = "attempt"
    /\ received = <<>>

\* tenacity's DoAttempt: the body runs once and its outcome is kept.
Attempt ==
    /\ r_pc = "attempt"
    /\ outcome' = <<LeafBody(leaf, answers[attempt_number])>>
    /\ r_pc' = "decide"
    /\ UNCHANGED beside_retry
    /\ UNCHANGED <<leaf, answers, attempt_number, received>>

\* tenacity's iter after an attempt: without a retry verdict the outcome goes
\* to the caller (the value returned, the exception raised); with one, the
\* stop rule ends the call with RetryError or the next attempt is made.
AfterAttempt ==
    /\ r_pc = "decide"
    /\ IF ~RetryPredicate(leaf, RetryCallState(attempt_number, outcome[1]))
       THEN /\ received' = outcome
            /\ r_pc' = "done"
            /\ UNCHANGED attempt_number
       ELSE IF attempt_number >= StopAfterAttempt
       THEN /\ received' = <<Raised("RetryError", outcome[1].value)>>
            /\ r_pc' = "done"
            /\ UNCHANGED attempt_number
       ELSE /\ attempt_number' = attempt_number + 1
            /\ r_pc' = "attempt"
            /\ UNCHANGED received
    /\ UNCHANGED beside_retry
    /\ UNCHANGED <<leaf, answers, outcome>>

RetryNext ==
    \/ Attempt
    \/ AfterAttempt

RetrySpec == RetryInit /\ [][RetryNext]_vars

\* The answer is a failure that another attempt can get past.
TransientFailure(f, answer) ==
    IF f = "find_companies" THEN answer.kind = "request_error"
    ELSE IF f = "find_emails_by_domain"
    THEN answer.kind \in {"network_error", "http_429", "http_500"}
    ELSE IF f = "_analyze_with_ai" THEN answer.kind = "request_error"
    ELSE answer.page = "fetch_error"

\* The answer is one the body turns into its regular result.
GoodAnswer(f, answer) ==
    IF f = "scrape_website"
    THEN answer.page = "ok" /\ answer.llm.kind = "json"
         /\ ValidInsights(answer.llm.data)
    ELSE IF f = "_analyze_with_ai"
    THEN answer.kind = "json" /\ ValidInsights(answer.data)
    ELSE answer.kind = "ok"

\* C14: a wrapped call makes at most three attempts, and when its first
\* attempt fails transiently and the second would succeed, the caller
\* receives the second attempt's result.
C14_RetriedAfterTransientFailure ==
    /\ attempt_number <= StopAfterAttempt
    /\ (r_pc = "done" /\ TransientFailure(leaf, answers[1])
                      /\ GoodAnswer(leaf, answers[2]))
           => received = <<LeafBody(leaf, answers[2])>>

\* The answer is text that json.loads rejects or data that CompanyInsights
\* rejects.
InvalidAnswer(answer) ==
    \/ answer.kind \in {"not_json", "json_not_object"}
    \/ answer.kind = "json" /\ ~ValidInsights(answer.data)

\* C29: in _analyze_with_ai an answer that is not valid JSON or fails the
\* validation gives the caller the fallback record after a single request,
\* and an exception reaches the retry wrapper only when the request itself
\* raised.
C29_InvalidAnswerGivesFallbackAtOnce ==
    leaf = "_analyze_with_ai" =>
        /\ (r_pc = "done" /\ InvalidAnswer(answers[1])) =>
               /\ received = <<Returned(FallbackInsights)>>
               /\ attempt_number = 1
        /\ (outcome # <<>> /\ outcome[1].raised) =>
               answers[attempt_number].kind = "request_error"

\* ------------------------------- the hardware categories, derived on their own

\* What a function applied on its own leaves alone.
beside_fn == <<pipeline_vars, main_vars, retry_vars, wait_vars>>

\* One application: the function and the value it returned.
Applied(f, value) == [fn |-> f, value |-> value]

AlreadyApplied(f) == \E r \in ret : r.fn = f

\* insights['hardware_opportunity'] as model_dump leaves it: five booleans.
HardwareInit ==
    /\ PipelineIdle
    /\ MainIdle
    /\ RetryIdle
    /\ WaitIdle
    /\ fn = "none"
    /\ arg \in [HardwareFlags -> BOOLEAN]
    /\ ret = {}

\* Lines 160-167 applied to the flags.
DeriveForRow ==
    /\ ~AlreadyApplied("row")
    /\ fn' = "row"
    /\ ret' = ret \cup {Applied("row", RowHardwareNeeds(arg))}
    /\ UNCHANGED arg
    /\ UNCHANGED beside_fn

\* Lines 311-316 applied to the flags.
DeriveForDisplay ==
    /\ ~AlreadyApplied("display")
    /\ fn' = "display"
    /\ ret' = ret \cup {Applied("display", DisplayHardwareNeeds(arg))}
    /\ UNCHANGED arg
    /\ UNCHANGED beside_fn

HardwareNext ==
    \/ DeriveForRow
    \/ DeriveForDisplay

HardwareSpec == HardwareInit /\ [][HardwareNext]_vars

\* The category names in their fixed order, and the flag each one reports.
CategoryOrder ==
    <<"Workstations", "Servers", "Networking", "Storage", "Peripherals">>

FlagOf(category) ==
    CASE category = "Workstations" -> "workstations"
      [] category = "Servers" -> "servers"
      [] category = "Networking" -> "networking"
      [] category = "Storage" -> "storage"
      [] category = "Peripherals" -> "peripherals"

\* C15: for every combination of the five flags, the list derived for the
\* remote row and the list derived for the display are both exactly the names
\* of the true flags in the order Workstations, Servers, Networking, Storage,
\* Peripherals, hence the same list.
C15_CategoriesAreTheTrueFlagsInOrder ==
    \A r \in ret :
        r.value = SelectSeq(CategoryOrder, LAMBDA c : arg[FlagOf(c)])

\* C15's case: both derivations were applied to flags of which some are true,
\* two of them out of alphabetical order, and some false.
C15_Witness ==
    /\ AlreadyApplied("row") /\ AlreadyApplied("display")
    /\ arg["servers"] /\ arg["networking"] /\ ~arg["storage"]

\* ------------------------------------------ _extract_subject_line on its own

\* Longest message, in tokens, the extraction is applied to.
MaxMessageLen == 4

\* The tokens such a message is made of.
MessageTokens == {"Subject:", " ", "x", NL}

RECURSIVE SplitLines(_)
\* text.split('\n'): the lines between the newlines, at least one.
SplitLines(text) ==
    IF \A k \in DOMAIN text : text[k] # NL THEN <<text>>
    ELSE LET nl == CHOOSE k \in DOMAIN text :
                       text[k] = NL /\ \A j \in 1..(k - 1) : text[j] # NL
         IN  <<SubSeq(text, 1, nl - 1)>>
             \o SplitLines(SubSeq(text, nl + 1, Len(text)))

\* line.startswith('Subject:').
StartsWithSubject(line) == line # <<>> /\ line[1] = "Subject:"

\* line.replace('Subject:', ''): every occurrence is removed.
ReplaceSubject(line) == SelectSeq(line, LAMBDA t : t # "Subject:")

RECURSIVE Strip(_)
\* text.strip(): no white space (blanks, line breaks) at either end.
Strip(text) ==
    IF text = <<>> THEN <<>>
    ELSE IF Head(text) \in {" ", NL} THEN Strip(Tail(text))
    ELSE IF text[Len(text)] \in {" ", NL}
         THEN Strip(SubSeq(text, 1, Len(text) - 1))
    ELSE text

\* _extract_subject_line (lines 339-345).
ExtractSubjectLine(email_message) ==
    LET lines == SplitLines(email_message)
        hits == {k \in DOMAIN lines : StartsWithSubject(lines[k])}
    IN  IF hits = {} THEN <<"N/A">>
        ELSE LET first == CHOOSE k \in hits : \A j \in hits : k <= j
             IN  Strip(ReplaceSubject(lines[first]))

SubjectInit ==
    /\ PipelineIdle
    /\ MainIdle
    /\ RetryIdle
    /\ WaitIdle
    /\ fn = "none"
    /\ arg \in SeqsUpTo(MessageTokens, MaxMessageLen)
                  \cup {LeadAcme.personalized_message,
                        LeadBeta.personalized_message}
    /\ ret = {}

\* Line 323: the subject is extracted from the message.
ExtractSubject ==
    /\ ~AlreadyApplied("_extract_subject_line")
    /\ fn' = "_extract_subject_line"
    /\ ret' = ret \cup {Applied("_extract_subject_line", ExtractSubjectLine(arg))}
    /\ UNCHANGED arg
    /\ UNCHANGED beside_fn

SubjectNext == ExtractSubject

SubjectSpec == SubjectInit /\ [][SubjectNext]_vars

\* The text after the prefix on the first line that begins with it, trimmed;
\* "N/A" when no line begins with it.
TextAfterFirstPrefix(text) ==
    LET lines == SplitLines(text)
        hits == {k \in DOMAIN lines : StartsWithSubject(lines[k])}
    IN  IF hits = {} THEN <<"N/A">>
        ELSE LET first == CHOOSE k \in hits : \A j \in hits : k <= j
             IN  Strip(Tail(lines[first]))

\* C16: _extract_subject_line returns the text that follows the prefix
\* "Subject:" on the first line beginning with it, trimmed, whatever comes on
\* later lines, and "N/A" when no line begins with it.
C16_SubjectIsTextAfterFirstPrefix ==
    \A r \in ret :
        r.fn = "_extract_subject_line" => r.value = TextAfterFirstPrefix(arg)

\* ------------------------------- format_email followed by _extract_subject_line

\* Longest subject line, in tokens, of the messages formatted.
MaxSubjectLen == 3

\* A message with the given subject line.
MessageWithSubject(subject) ==
    [OutreachMessage(MessageGood) EXCEPT !.subject_line = subject]

RoundTripInit ==
    /\ PipelineIdle
    /\ MainIdle
    /\ RetryIdle
    /\ WaitIdle
    /\ fn = "none"
    /\ arg \in {MessageWithSubject(subject) :
                    subject \in SeqsUpTo(MessageTokens, MaxSubjectLen)}
    /\ ret = {}

\* Line 107 of process_leads: the message is formatted as an email.
FormatMessage ==
    /\ ~AlreadyApplied("format_email")
    /\ fn' = "format_email"
    /\ ret' = ret \cup {Applied("format_email", FormatEmail(arg))}
    /\ UNCHANGED arg
    /\ UNCHANGED beside_fn

\* Line 323 of display_leads_summary: the subject is extracted from the
\* formatted email.
ExtractFromFormatted ==
    /\ ~AlreadyApplied("_extract_subject_line")
    /\ \E formatted \in ret :
           /\ formatted.fn = "format_email"
           /\ ret' = ret \cup {Applied("_extract_subject_line",
                                       ExtractSubjectLine(formatted.value))}
    /\ fn' = "_extract_subject_line"
    /\ UNCHANGED arg
    /\ UNCHANGED beside_fn

RoundTripNext == FormatMessage \/ ExtractFromFormatted

RoundTripSpec == RoundTripInit /\ [][RoundTripNext]_vars

\* C28: the subject extracted from a formatted message is the message's
\* subject line with the white space around it trimmed, also when the subject
\* line contains "Subject:", is empty or contains a line break.
C28_RoundTripGivesTrimmedSubject ==
    \A r \in ret :
        r.fn = "_extract_subject_line" => r.value = Strip(arg.subject_line)

\* ------------------------------- the outbound requests of one run and their waits

\* The timeout each request is sent with: <<>> for none, else <<seconds>>.
\* session.post of find_companies and session.get of find_emails_by_domain
\* pass none; the page fetch passes 15; the chat-completion requests run
\* under the client's own default of 600.
TimeoutOf(stage) ==
    IF stage = "directory" THEN <<>>
    ELSE IF stage = "website" THEN <<15>>
    ELSE IF stage = "contact" THEN <<>>
    ELSE <<600>>

\* One request on the wire.
Request(stage, company) ==
    [stage |-> stage, company |-> company, timeout |-> TimeoutOf(stage)]

\* What the run does when the request of a stage has ended, with an answer
\* (ok) or with an error or an elapsed timeout (~ok): a failed directory
\* lookup raises, a failed page fetch skips the analysis, everything else
\* goes on to the next request, the next company or the return.
AfterRequest(stage, company, n, ok) ==
    IF stage = "directory"
    THEN IF ~ok THEN [stage |-> "end", company |-> 0, result |-> "raised"]
         ELSE IF n = 0 THEN [stage |-> "end", company |-> 0, result |-> "returned"]
         ELSE [stage |-> "website", company |-> 1, result |-> "running"]
    ELSE IF stage = "website"
    THEN [stage |-> IF ok THEN "analysis" ELSE "contact",
          company |-> company, result |-> "running"]
    ELSE IF stage = "analysis"
    THEN [stage |-> "contact", company |-> company, result |-> "running"]
    ELSE IF stage = "contact"
    THEN [stage |-> "message", company |-> company, result |-> "running"]
    ELSE IF company < n
    THEN [stage |-> "website", company |-> company + 1, result |-> "running"]
    ELSE [stage |-> "end", company |-> company, result |-> "returned"]

\* What the observed run leaves alone.
beside_wait == <<pipeline_vars, main_vars, fn_vars, retry_vars>>

WaitInit ==
    /\ PipelineIdle
    /\ MainIdle
    /\ FnIdle
    /\ RetryIdle
    /\ w_n \in 0..MaxCompanies
    /\ w_stage = "directory"
    /\ w_company = 0
    /\ in_flight = <<>>
    /\ w_failed = {}
    /\ w_result = "running"

\* The request of the current stage is sent and the thread blocks on it.
SendRequest ==
    /\ w_result = "running"
    /\ in_flight = <<>>
    /\ in_flight' = <<Request(w_stage, w_company)>>
    /\ UNCHANGED <<w_n, w_stage, w_company, w_failed, w_result>>
    /\ UNCHANGED beside_wait

\* The pending request has ended; the run moves on.
EndRequest(ok) ==
    LET after == AfterRequest(w_stage, w_company, w_n, ok)
    IN  /\ in_flight' = <<>>
        /\ w_stage' = after.stage
        /\ w_company' = after.company
        /\ w_result' = after.result
        /\ w_failed' = IF ok THEN w_failed
                       ELSE w_failed \cup {[stage |-> w_stage, company |-> w_company]}
        /\ UNCHANGED w_n
        /\ UNCHANGED beside_wait

\* The remote side answers, well or with an error.  Nothing obliges it to.
Respond ==
    /\ in_flight # <<>>
    /\ \E ok \in BOOLEAN : EndRequest(ok)

\* The request's timeout elapses: the library raises and the request fails.
Expire ==
    /\ in_flight # <<>>
    /\ in_flight[1].timeout # <<>>
    /\ EndRequest(FALSE)

WaitNext ==
    \/ SendRequest
    \/ Respond
    \/ Expire

\* The thread keeps running and a timer that was set does elapse; the remote
\* side is under no such obligation.
WaitSpec ==
    WaitInit /\ [][WaitNext]_vars /\ WF_vars(SendRequest) /\ WF_vars(Expire)

\* C21: a run that has not ended can always go on without the remote side:
\* it can send its next request, or the pending request's timeout will
\* elapse.
C21_RunNeverWaitsUnbounded ==
    w_result = "running" => ENABLED (SendRequest \/ Expire)

\* ------------------------------------------------ generate_message on its own

\* The insight records generate_message can be handed.
InsightRecords ==
    {CompanyInsights(InsightsGood), CompanyInsights(InsightsDefaults),
     FallbackInsights}

MessageInit ==
    /\ PipelineIdle
    /\ MainIdle
    /\ RetryIdle
    /\ WaitIdle
    /\ fn = "none"
    /\ arg \in [company : {CompanyOf(org) : org \in Organizations},
                insights : InsightRecords,
                llm : MessageLLMResponses]
    /\ ret = {}

\* enrichment.py line 100: generate_message(company, insights).
ComposeMessage ==
    /\ ~AlreadyApplied("generate_message")
    /\ fn' = "generate_message"
    /\ ret' = ret \cup {Applied("generate_message",
                                GenerateMessage(arg.company, arg.insights, arg.llm))}
    /\ UNCHANGED arg
    /\ UNCHANGED beside_fn

MessageNext == ComposeMessage

MessageSpec == MessageInit /\ [][MessageNext]_vars

\* C23: every message generate_message returns, from the model's answer or
\* from the template, has all seven text fields, none of them empty.
C23_MessageFullyPopulated ==
    \A r \in ret :
        (r.fn = "generate_message" /\ ~r.value.raised) =>
            /\ DOMAIN r.value.value = MessageFields
            /\ \A f \in MessageFields : r.value.value[f] # <<>>

\* -------------------------------------------------- scrape_website on its own

\* Answers of the language model with every short list of key insights, up
\* to one more than the ceiling.
KeyInsightAnswers ==
    { [kind |-> "json", data |-> [InsightsGood EXCEPT !.fields.key_insights = ki]] :
          ki \in SeqsUpTo({"hiring", "old servers"}, MaxKeyInsights + 1) }

InsightInit ==
    /\ PipelineIdle
    /\ MainIdle
    /\ RetryIdle
    /\ WaitIdle
    /\ fn = "none"
    /\ arg \in [page : PageResponses,
                llm : InsightLLMResponses \cup KeyInsightAnswers]
    /\ ret = {}

\* enrichment.py line 82 and 104: scrape_website(company.website), and the
\* record the Lead stores, insights.model_dump().
ScrapeAlone ==
    /\ ~AlreadyApplied("scrape_website")
    /\ fn' = "scrape_website"
    /\ ret' = ret \cup
           {Applied("scrape_website",
                    ModelDumpInsights(ScrapeWebsite(arg.page, arg.llm).value))}
    /\ UNCHANGED arg
    /\ UNCHANGED beside_fn

InsightNext == ScrapeAlone

InsightSpec == InsightInit /\ [][InsightNext]_vars

\* The page was fetched and the model answered JSON with more key insights
\* than the ceiling.
TooManyKeyInsights ==
    /\ arg.page = "ok"
    /\ arg.llm.kind = "json"
    /\ Len(arg.llm.data.fields.key_insights) > MaxKeyInsights

\* C24: every insight record kept for a Lead has at most 3 key insights; an
\* answer with more than 3 is replaced by the fallback record, which has
\* exactly 3 and all five hardware flags false.
C24_AtMostThreeKeyInsights ==
    \A r \in ret :
        r.fn = "scrape_website" =>
            /\ Len(r.value.key_insights) <= MaxKeyInsights
            /\ TooManyKeyInsights =>
                   /\ r.value = ModelDumpInsights(FallbackInsights)
                   /\ Len(r.value.key_insights) = 3
                   /\ \A f \in HardwareFlags : ~r.value.hardware_opportunity[f]

\* C24's case: the model listed four key insights and a record was kept.
C24_Witness ==
    /\ TooManyKeyInsights
    /\ AlreadyApplied("scrape_website")

====
